---- MODULE Spec2Model ----
(***************************************************************************)
(* Model of code.py: the gold / CPI inflation-hedge analysis script.       *)
(*                                                                         *)
(* The script is one top-to-bottom run over module-level state (df_gold,   *)
(* df_cpi, df, model, ...).  Each numbered section of the script is an     *)
(* action, pc is the position of the run, and an exception that no except  *)
(* clause catches ends the run in pc = "aborted".                          *)
(*                                                                         *)
(* Floating point values are modelled exactly: a finite value is a         *)
(* normalised fraction, and NaN, +inf and -inf are values of their own.    *)
(* The library calls (pandas, statsmodels) are modelled by what they do    *)
(* with the arguments the script hands them; Series.__getitem__ with an    *)
(* integer on a labelled Series is positional (pandas 1.x / 2.x).          *)
(***************************************************************************)
EXTENDS Integers, Sequences, FiniteSets, TLC

(***************************************************************************)
(* Bounds of the model.                                                    *)
(***************************************************************************)
MaxRows == 3        \* rows of a CSV file in the value-driven inputs
MaxMergeRows == 3   \* rows of a CSV file in the key-driven inputs
MaxMonth == 3       \* months of 2023 the key-driven inputs draw from
MaxDateRows == 2    \* rows of a CSV file in the format-driven inputs
LongRows == 13      \* rows of the longest (regular monthly) input
MaxN == 4           \* length of the series handed to rolling_beta alone
MaxW == 3           \* window widths handed to rolling_beta alone

(***************************************************************************)
(* float64 values: finite fractions, NaN and the infinities.               *)
(***************************************************************************)
NaN == [k |-> "nan", n |-> 0, d |-> 1]
PosInf == [k |-> "inf", n |-> 1, d |-> 0]
NegInf == [k |-> "inf", n |-> -1, d |-> 0]

Abs(a) == IF a < 0 THEN -a ELSE a

RECURSIVE Gcd(_, _)
Gcd(a, b) == IF b = 0 THEN a ELSE Gcd(b, a % b)

Num(a, b) ==
    LET g == Gcd(Abs(a), Abs(b))
        s == IF b < 0 THEN -1 ELSE 1
    IN  [k |-> "num", n |-> (s * a) \div g, d |-> (s * b) \div g]

Float(a) == Num(a, 1)

IsNaN(v) == v.k = "nan"
IsFinite(v) == v.k = "num"

\* exact arithmetic on finite values; common factors go before a product is
\* formed, so that the intermediate integers stay small
RAdd(x, y) ==
    LET g == Gcd(x.d, y.d)
    IN  Num(x.n * (y.d \div g) + y.n * (x.d \div g), (x.d \div g) * y.d)
RNeg(x) == [x EXCEPT !.n = -x.n]
RSub(x, y) == RAdd(x, RNeg(y))
RMul(x, y) ==
    LET g1 == Gcd(Abs(x.n), y.d)
        g2 == Gcd(Abs(y.n), x.d)
    IN  Num((x.n \div g1) * (y.n \div g2), (x.d \div g2) * (y.d \div g1))
RInv(x) == Num(x.d, x.n)
RDiv(x, y) == RMul(x, RInv(y))

\* the sum of a series of finite values, over their common denominator;
\* the series is halved at each step
RECURSIVE CommonDen(_, _, _)
CommonDen(s, lo, hi) ==
    IF lo > hi THEN 1
    ELSE IF lo = hi THEN s[lo].d
    ELSE LET mid == (lo + hi) \div 2
             lft == CommonDen(s, lo, mid)
             rgt == CommonDen(s, mid + 1, hi)
         IN  (lft \div Gcd(lft, rgt)) * rgt

RECURSIVE SumOver(_, _, _, _)
SumOver(s, lo, hi, den) ==
    IF lo > hi THEN 0
    ELSE IF lo = hi THEN s[lo].n * (den \div s[lo].d)
    ELSE LET mid == (lo + hi) \div 2
         IN  SumOver(s, lo, mid, den) + SumOver(s, mid + 1, hi, den)

RSum(s) ==
    Num(SumOver(s, 1, Len(s), CommonDen(s, 1, Len(s))), CommonDen(s, 1, Len(s)))

Prod(xs, ys) == [i \in 1..Len(xs) |-> RMul(xs[i], ys[i])]

AllFinite(s) == \A i \in 1..Len(s) : IsFinite(s[i])

(***************************************************************************)
(* Calendar dates: what a Timestamp / datetime64 holds.                    *)
(***************************************************************************)
IsLeap(y) == (y % 4 = 0 /\ y % 100 # 0) \/ y % 400 = 0

DaysInMonth(y, mo) ==
    IF mo = 2 THEN (IF IsLeap(y) THEN 29 ELSE 28)
    ELSE IF mo \in {4, 6, 9, 11} THEN 30 ELSE 31

RECURSIVE DaysBeforeMonth(_, _)
DaysBeforeMonth(y, mo) ==
    IF mo = 1 THEN 0 ELSE DaysBeforeMonth(y, mo - 1) + DaysInMonth(y, mo - 1)

\* days since a fixed epoch (proleptic Gregorian ordinal)
DayNumber(dt) ==
    LET y == dt.y - 1
    IN  365 * y + (y \div 4) - (y \div 100) + (y \div 400)
          + DaysBeforeMonth(dt.y, dt.mo) + dt.d

Date(y, mo, d) == [y |-> y, mo |-> mo, d |-> d]

\* .values.astype("datetime64[M]"): truncation to the first day of the month
MonthStart(dt) == Date(dt.y, dt.mo, 1)

(***************************************************************************)
(* Date tokens of a CSV Date column.  form is the way the text is written: *)
(*   "bY"   Jan 2023        "by"   Jan 23                                  *)
(*   "dmY"  05/01/2023      "Ymd"  2023-01-05                              *)
(*   "text" January 5, 2023 (none of the candidate formats)                *)
(*   "bad"  not a date                                                     *)
(* y, mo, d are the fields the writer of the file meant.                   *)
(***************************************************************************)
NoParse == [y |-> 0, mo |-> 0, d |-> 0]

Token(form, y, mo, d) == [form |-> form, y |-> y, mo |-> mo, d |-> d]

BadToken == Token("bad", 0, 0, 0)

Formats == << "%b %Y", "%b %y", "%d/%m/%Y", "%Y-%m-%d" >>

\* pd.to_datetime(..., format=fmt) on one token
ParseWith(fmt, tok) ==
    IF fmt = "%b %Y" /\ tok.form = "bY" THEN Date(tok.y, tok.mo, 1)
    ELSE IF fmt = "%b %y" /\ tok.form = "by" THEN Date(tok.y, tok.mo, 1)
    ELSE IF fmt = "%d/%m/%Y" /\ tok.form = "dmY" THEN Date(tok.y, tok.mo, tok.d)
    ELSE IF fmt = "%Y-%m-%d" /\ tok.form = "Ymd" THEN Date(tok.y, tok.mo, tok.d)
    ELSE NoParse

\* pd.to_datetime(...) without a format, on one token: slash-separated
\* numbers are read month first (dayfirst=False) when that is a valid date.
\* A month name with a two-digit number ("by") has no reading that every
\* pandas release agrees on; Init hands such tokens to inference only in a
\* column that also holds a token that is not a date, where it fails anyway.
InferToken(tok) ==
    IF tok.form = "bY" THEN Date(tok.y, tok.mo, 1)
    ELSE IF tok.form \in {"Ymd", "text"} THEN Date(tok.y, tok.mo, tok.d)
    ELSE IF tok.form = "dmY"
         THEN IF tok.d <= 12 THEN Date(tok.y, tok.d, tok.mo)
              ELSE Date(tok.y, tok.mo, tok.d)
    ELSE NoParse

\* to_datetime raises ValueError unless every token of the column parses
ColumnParses(fmt, col) == \A i \in 1..Len(col) : ParseWith(fmt, col[i].Date) # NoParse

ColumnInfers(col) == \A i \in 1..Len(col) : InferToken(col[i].Date) # NoParse

ParseColumn(fmt, col) ==
    [i \in 1..Len(col) |-> [col[i] EXCEPT !.Date = ParseWith(fmt, col[i].Date)]]

InferColumn(col) ==
    [i \in 1..Len(col) |-> [col[i] EXCEPT !.Date = InferToken(col[i].Date)]]

TruncateColumn(col) ==
    [i \in 1..Len(col) |-> [col[i] EXCEPT !.Date = MonthStart(col[i].Date)]]

(***************************************************************************)
(* Series helpers.                                                         *)
(***************************************************************************)
Column(table, name) == [i \in 1..Len(table) |-> table[i][name]]

NaNs(count) == [i \in 1..count |-> NaN]

RECURSIVE SelectRows(_, _)
SelectRows(table, keep) ==
    IF table = <<>> THEN <<>>
    ELSE IF keep[1] THEN <<Head(table)>> \o SelectRows(Tail(table), Tail(keep))
    ELSE SelectRows(Tail(table), Tail(keep))

\* Series.pct_change(): cur / prev - 1, with IEEE division by zero
PctChange(cur, prev) ==
    IF ~IsFinite(cur) \/ ~IsFinite(prev) THEN NaN
    ELSE IF prev.n = 0
         THEN IF cur.n = 0 THEN NaN ELSE IF cur.n > 0 THEN PosInf ELSE NegInf
    ELSE RSub(RDiv(cur, prev), Float(1))

\* "* 100" on a float64
Times100(v) == IF IsFinite(v) THEN RMul(v, Float(100)) ELSE v

pct_change(col) ==
    [i \in 1..Len(col) |-> IF i = 1 THEN NaN ELSE PctChange(col[i], col[i - 1])]

\* DataFrame.dropna(): a row goes when any of its cells is NaN (inf stays)
RowHasNaN(row) == \E f \in DOMAIN row : f # "Date" /\ IsNaN(row[f])

dropna(table) == SelectRows(table, [i \in 1..Len(table) |-> ~RowHasNaN(table[i])])

(***************************************************************************)
(* Moments of a window, all scaled by the number of points.                *)
(***************************************************************************)
Cov(xs, ys) ==
    RSub(RMul(Float(Len(xs)), RSum(Prod(xs, ys))), RMul(RSum(xs), RSum(ys)))

Var(xs) == Cov(xs, xs)

\* Pearson correlation r = cov / sqrt(vx * vy), kept as the fraction
\* sign(r) * r^2
Corr(xs, ys) ==
    IF Len(xs) < 2 \/ ~AllFinite(xs) \/ ~AllFinite(ys) THEN NaN
    ELSE IF Var(xs).n = 0 \/ Var(ys).n = 0 THEN NaN
    ELSE LET c == Cov(xs, ys)
             sq == RMul(RDiv(c, Var(xs)), RDiv(c, Var(ys)))
             sg == IF c.n < 0 THEN -1 ELSE 1
         IN  [k |-> "corr", n |-> sg * sq.n, d |-> sq.d]

\* Series.rolling(window).corr(other): one entry per row, NaN until the
\* window is full
rolling_corr(xs, ys, w) ==
    [j \in 1..Len(xs) |->
        IF j < w THEN NaN
        ELSE Corr(SubSeq(xs, j - w + 1, j), SubSeq(ys, j - w + 1, j))]

(***************************************************************************)
(* statsmodels: add_constant and OLS(...).fit() on one regressor.          *)
(***************************************************************************)
\* add_constant(has_constant='skip') adds no column when the regressor is
\* itself a non-zero constant: np.ptp(s) == 0.0 and np.any(s != 0.0)
IsNonzeroConst(xs) ==
    /\ Len(xs) >= 1
    /\ AllFinite(xs)
    /\ \A i \in 1..Len(xs) : xs[i] = xs[1]
    /\ xs[1].n # 0

add_constant(xs) ==
    IF IsNonzeroConst(xs) THEN << "Inflation_Rate" >>
    ELSE << "const", "Inflation_Rate" >>

\* the exception sm.OLS(y, X) raises, "none" when it raises none
OLSRaises(xs) ==
    IF Len(xs) = 0 THEN "ValueError"
    ELSE IF ~AllFinite(xs) THEN "MissingDataError"
    ELSE "none"

NonFinite == {NaN, PosInf, NegInf}

\* the least-squares (pinv) solution, in the order of the design's columns;
\* a set, because a non-finite y leaves the sign of the result to rounding
FitParams(xs, ys) ==
    IF ~AllFinite(ys)
    THEN IF Len(add_constant(xs)) = 1 THEN {<<a>> : a \in NonFinite}
         ELSE {<<a, b>> : a \in NonFinite, b \in NonFinite}
    ELSE IF Len(add_constant(xs)) = 1
    THEN {<< RDiv(RSum(Prod(xs, ys)), RSum(Prod(xs, xs))) >>}
    ELSE IF Var(xs).n = 0
    THEN {<< RDiv(RSum(ys), Float(Len(ys))), Float(0) >>}
    ELSE LET slope == RDiv(Cov(xs, ys), Var(xs))
             icept == RDiv(RSub(RSum(ys), RMul(slope, RSum(xs))), Float(Len(xs)))
         IN  {<< icept, slope >>}

\* one pass of the try/except of rolling_beta: params[1] is the second
\* entry of params, and any exception records NaN
WindowBeta(xs, ys) ==
    IF OLSRaises(xs) # "none" THEN {NaN}
    ELSE {IF Len(p) >= 2 THEN p[2] ELSE NaN : p \in FitParams(xs, ys)}

(***************************************************************************)
(* pd.merge(df_gold, df_cpi, on='Date', how='inner'): every pair of a left *)
(* row and a right row with the same key, in the order of the left rows.   *)
(***************************************************************************)
RECURSIVE MatchRows(_, _)
MatchRows(g, cpi) ==
    IF cpi = <<>> THEN <<>>
    ELSE (IF Head(cpi).Date = g.Date
          THEN << [Date |-> g.Date, Price |-> g.Price,
                   CPI_Combined |-> Head(cpi).CPI_Combined] >>
          ELSE <<>>) \o MatchRows(g, Tail(cpi))

\* how='left' instead of how='inner': a gold row without a CPI row stays
JoinRow_left(g, cpi) ==
    IF MatchRows(g, cpi) = <<>>
    THEN << [Date |-> g.Date, Price |-> g.Price, CPI_Combined |-> NaN] >>
    ELSE MatchRows(g, cpi)

\* how='inner': the rows one gold row contributes
JoinRow(g, cpi) == MatchRows(g, cpi)

RECURSIVE merge(_, _)
merge(gold, cpi) ==
    IF gold = <<>> THEN <<>>
    ELSE JoinRow(Head(gold), cpi) \o merge(Tail(gold), cpi)

(***************************************************************************)
(* df.sort_values('Date'): the default sort is not stable, so rows with    *)
(* the same key may come out in any order.                                 *)
(***************************************************************************)
MinRows(table, idx) ==
    {i \in idx : \A j \in idx : DayNumber(table[i].Date) <= DayNumber(table[j].Date)}

RECURSIVE SortOrders(_, _)
SortOrders(table, idx) ==
    IF idx = {} THEN {<<>>}
    ELSE UNION {{<<i>> \o rest : rest \in SortOrders(table, idx \ {i})} :
                i \in MinRows(table, idx)}

sort_values(table) ==
    {[k \in 1..Len(table) |-> table[order[k]]] :
        order \in SortOrders(table, 1..Len(table))}

(***************************************************************************)
(* The gap check of section 2.                                             *)
(***************************************************************************)
GapDays == 50

\* df['Date'].diff().dt.days
date_diffs(table) ==
    [i \in 1..Len(table) |->
        IF i = 1 THEN NaN
        ELSE Float(DayNumber(table[i].Date) - DayNumber(table[i - 1].Date))]

DropNaN(col) == SelectSeq(col, LAMBDA v : ~IsNaN(v))

\* a threshold of 60 days instead of 50
GapExceeds_60(v) == v.n > 60 * v.d

GapExceeds(v) == v.n > GapDays * v.d

\* (date_diffs.dropna() > 50).any()
HasGap(table) ==
    LET diffs == DropNaN(date_diffs(table))
    IN  \E i \in 1..Len(diffs) : GapExceeds(diffs[i])

(***************************************************************************)
(* Section 3: the two pct_change columns, then dropna.                     *)
(***************************************************************************)
WithReturns(table) ==
    LET infl == pct_change(Column(table, "CPI_Combined"))
        gret == pct_change(Column(table, "Price"))
    IN  [i \in 1..Len(table) |->
            [Date |-> table[i].Date, Price |-> table[i].Price,
             CPI_Combined |-> table[i].CPI_Combined,
             Inflation_Rate |-> Times100(infl[i]),
             Gold_Returns |-> Times100(gret[i])]]

CalcReturns(table) == dropna(WithReturns(table))

(***************************************************************************)
(* Section 4B: the static regression.                                      *)
(***************************************************************************)
Probability == [k |-> "p", n |-> 0, d |-> 1]   \* some p-value in [0, 1]

NoModel == [names |-> <<>>, params |-> <<>>]

NoStats == [r_squared |-> NaN, beta |-> NaN, beta_pvalue |-> NaN, alpha |-> NaN]

\* model.rsquared = 1 - ssr / centered_tss
RSquared(xs, ys) ==
    IF ~AllFinite(ys) \/ Var(ys).n = 0 THEN NaN
    ELSE IF Var(xs).n = 0 THEN Float(0)
    ELSE RMul(RDiv(Cov(xs, ys), Var(xs)), RDiv(Cov(xs, ys), Var(ys)))

\* model.pvalues['Inflation_Rate']: a t test with n - 2 degrees of freedom
PValue(xs, ys) ==
    IF Len(xs) > 2 /\ AllFinite(ys) /\ Var(xs).n # 0 /\ Var(ys).n # 0
    THEN Probability ELSE NaN

WindowCorr12 == 12
WindowCorr24 == 24
WindowBeta12 == 12

(***************************************************************************)
(* State of the run.                                                       *)
(***************************************************************************)
VARIABLES
    csv_gold, csv_cpi,        \* the rows of gold_prices.csv and cpi_data.csv
    df_gold, df_cpi,          \* the two frames
    fmt_i,                    \* position of the for loop over the formats:
                              \* Formats[fmt_i] is fmt, and past the last
                              \* format the loop has run out
    df,                       \* the merged frame
    merged,                   \* df as it left sort_values
    gap_msg,                  \* the line the gap check printed
    corr_coeff, model, stats, \* section 4A and 4B
    files,                    \* files written so far
    pc, error, abort_line,    \* position, uncaught exception and its line
    inflation, gold_returns, window, rb_i, betas,   \* frame of rolling_beta
    rb_result,                \* what rolling_beta returned
    rb_corr                   \* what rolling(window).corr returned

inputs == <<csv_gold, csv_cpi>>
gvars == <<df_gold, fmt_i>>
cvars == <<df_cpi>>
tvars == <<df, merged, gap_msg>>
svars == <<corr_coeff, model, stats>>
rvars == <<inflation, gold_returns, window, rb_i, betas, rb_result, rb_corr>>
ctl == <<pc, error, abort_line>>
vars == <<inputs, gvars, cvars, tvars, svars, files, ctl, rvars>>

Abort(err, line) == pc' = "aborted" /\ error' = err /\ abort_line' = line

Goto(next) == pc' = next /\ UNCHANGED <<error, abort_line>>

(***************************************************************************)
(* Section 1: loading and parsing.                                         *)
(***************************************************************************)
\* one pass of "for fmt in [...]: try ... break / except ValueError: continue"
TryGoldFormat ==
    /\ pc = "gold_dates"
    /\ fmt_i <= Len(Formats)
    /\ IF ColumnParses(Formats[fmt_i], df_gold)
       THEN /\ df_gold' = ParseColumn(Formats[fmt_i], df_gold)
            /\ fmt_i' = fmt_i
            /\ Goto("gold_month")
       ELSE /\ fmt_i' = fmt_i + 1
            /\ UNCHANGED <<df_gold, ctl>>
    /\ UNCHANGED <<inputs, cvars, tvars, svars, files, rvars>>

\* the else clause of the for loop: no format fitted, infer
InferGoldDates ==
    /\ pc = "gold_dates"
    /\ fmt_i > Len(Formats)
    /\ IF ColumnInfers(df_gold)
       THEN /\ df_gold' = InferColumn(df_gold)
            /\ Goto("gold_month")
       ELSE /\ Abort("ValueError", 30)
            /\ UNCHANGED df_gold
    /\ UNCHANGED <<inputs, fmt_i, cvars, tvars, svars, files, rvars>>

\* lines 33-39; the Price column is numeric in every input of the model,
\* so the branch of line 33 is not taken
NormalizeGold ==
    /\ pc = "gold_month"
    /\ df_gold' = TruncateColumn(df_gold)
    /\ Goto("cpi_dates")
    /\ UNCHANGED <<inputs, fmt_i, cvars, tvars, svars, files, rvars>>

\* lines 42-47: the CPI dates go straight to inference
ParseCPIDates ==
    /\ pc = "cpi_dates"
    /\ IF ColumnInfers(df_cpi)
       THEN /\ df_cpi' = TruncateColumn(InferColumn(df_cpi))
            /\ Goto("merge")
       ELSE /\ Abort("ValueError", 46)
            /\ UNCHANGED df_cpi
    /\ UNCHANGED <<inputs, gvars, tvars, svars, files, rvars>>

(***************************************************************************)
(* Section 2: merge, sort, gap check.                                      *)
(***************************************************************************)
Merge ==
    /\ pc = "merge"
    /\ df' = merge(df_gold, df_cpi)
    /\ Goto("sort")
    /\ UNCHANGED <<inputs, gvars, cvars, merged, gap_msg, svars, files, rvars>>

Sort ==
    /\ pc = "sort"
    /\ \E sorted \in sort_values(df) :
          /\ df' = sorted
          /\ merged' = sorted
    /\ Goto("gap_check")
    /\ UNCHANGED <<inputs, gvars, cvars, gap_msg, svars, files, rvars>>

GapCheck ==
    /\ pc = "gap_check"
    /\ gap_msg' = IF HasGap(df) THEN "WARNING" ELSE "OK"
    /\ Goto("returns")
    /\ UNCHANGED <<inputs, gvars, cvars, df, merged, svars, files, rvars>>

(***************************************************************************)
(* Section 3: returns.                                                     *)
(***************************************************************************)
Returns ==
    /\ pc = "returns"
    /\ df' = CalcReturns(df)
    /\ Goto("corr")
    /\ UNCHANGED <<inputs, gvars, cvars, merged, gap_msg, svars, files, rvars>>

(***************************************************************************)
(* Section 4: statistics.                                                  *)
(***************************************************************************)
\* lines 82-95
Correlation ==
    /\ pc = "corr"
    /\ corr_coeff' = Corr(Column(df, "Inflation_Rate"), Column(df, "Gold_Returns"))
    /\ Goto("ols")
    /\ UNCHANGED <<inputs, gvars, cvars, tvars, model, stats, files, rvars>>

\* lines 98-114: sm.OLS raises on an empty or non-finite regressor, and
\* model.params['const'] raises KeyError when add_constant added no column
StaticOLS ==
    /\ pc = "ols"
    /\ LET xs == Column(df, "Inflation_Rate")
           ys == Column(df, "Gold_Returns")
       IN  IF OLSRaises(xs) # "none"
           THEN /\ Abort(OLSRaises(xs), 100)
                /\ UNCHANGED <<model, stats>>
           ELSE \E p \in FitParams(xs, ys) :
                  /\ model' = [names |-> add_constant(xs), params |-> p]
                  /\ IF Len(p) = 1
                     THEN /\ Abort("KeyError", 109)
                          /\ UNCHANGED stats
                     ELSE /\ stats' = [r_squared |-> RSquared(xs, ys),
                                       beta |-> p[2],
                                       beta_pvalue |-> PValue(xs, ys),
                                       alpha |-> p[1]]
                          /\ Goto("rolling_corr")
    /\ UNCHANGED <<inputs, gvars, cvars, tvars, corr_coeff, files, rvars>>

\* lines 119-123
RollingCorr ==
    /\ pc = "rolling_corr"
    /\ LET xs == Column(df, "Inflation_Rate")
           ys == Column(df, "Gold_Returns")
           c12 == rolling_corr(xs, ys, WindowCorr12)
           c24 == rolling_corr(xs, ys, WindowCorr24)
       IN  df' = [j \in 1..Len(df) |->
                    [Date |-> df[j].Date, Price |-> df[j].Price,
                     CPI_Combined |-> df[j].CPI_Combined,
                     Inflation_Rate |-> df[j].Inflation_Rate,
                     Gold_Returns |-> df[j].Gold_Returns,
                     Rolling_Corr_12m |-> c12[j],
                     Rolling_Corr_24m |-> c24[j]]]
    /\ Goto("rb_call")
    /\ UNCHANGED <<inputs, gvars, cvars, merged, gap_msg, svars, files, rvars>>

(***************************************************************************)
(* rolling_beta(inflation, gold_returns, window), one loop pass at a time. *)
(***************************************************************************)
\* line 139, the call
CallRollingBeta ==
    /\ pc = "rb_call"
    /\ inflation' = Column(df, "Inflation_Rate")
    /\ gold_returns' = Column(df, "Gold_Returns")
    /\ window' = WindowBeta12
    /\ rb_i' = 0
    /\ betas' = <<>>
    /\ Goto("rb_loop")
    /\ UNCHANGED <<inputs, gvars, cvars, tvars, svars, files, rb_result, rb_corr>>

\* iloc[i:i+window-1] instead of iloc[i:i+window]: a window one row short
WindowAt_short(series, start, width) == SubSeq(series, start + 1, start + width - 1)

\* the slices inflation.iloc[i:i+window] and gold_returns.iloc[i:i+window]
WindowAt(series, start, width) == SubSeq(series, start + 1, start + width)

\* lines 129-136: one pass of "for i in range(len(inflation) - window + 1)"
RollingBetaPass ==
    /\ pc = "rb_loop"
    /\ rb_i < Len(inflation) - window + 1
    /\ \E b \in WindowBeta(WindowAt(inflation, rb_i, window),
                           WindowAt(gold_returns, rb_i, window)) :
          betas' = Append(betas, b)
    /\ rb_i' = rb_i + 1
    /\ UNCHANGED <<inputs, gvars, cvars, tvars, svars, files, ctl,
                   inflation, gold_returns, window, rb_result, rb_corr>>

\* line 137: return [np.nan] * (window - 1) + betas
RollingBetaReturn ==
    /\ pc = "rb_loop"
    /\ ~(rb_i < Len(inflation) - window + 1)
    /\ rb_result' = NaNs(window - 1) \o betas
    /\ Goto("rb_return")
    /\ UNCHANGED <<inputs, gvars, cvars, tvars, svars, files,
                   inflation, gold_returns, window, rb_i, betas, rb_corr>>

\* line 139, the assignment: a list of another length than the frame
\* raises ValueError
AssignRollingBeta ==
    /\ pc = "rb_return"
    /\ IF Len(rb_result) = Len(df)
       THEN /\ df' = [j \in 1..Len(df) |->
                        [Date |-> df[j].Date, Price |-> df[j].Price,
                         CPI_Combined |-> df[j].CPI_Combined,
                         Inflation_Rate |-> df[j].Inflation_Rate,
                         Gold_Returns |-> df[j].Gold_Returns,
                         Rolling_Corr_12m |-> df[j].Rolling_Corr_12m,
                         Rolling_Corr_24m |-> df[j].Rolling_Corr_24m,
                         Rolling_Beta_12m |-> rb_result[j]]]
            /\ Goto("visualize")
       ELSE /\ Abort("ValueError", 139)
            /\ UNCHANGED df
    /\ UNCHANGED <<inputs, gvars, cvars, merged, gap_msg, svars, files, rvars>>

(***************************************************************************)
(* Sections 5-8: the charts and the exports.                               *)
(***************************************************************************)
Visualize ==
    /\ pc = "visualize"
    /\ files' = files \cup {"01_trend_comparison.png",
                            "02_rolling_correlation_and_beta.png",
                            "03_regression_scatter.png"}
    /\ Goto("export")
    /\ UNCHANGED <<inputs, gvars, cvars, tvars, svars, rvars>>

Export ==
    /\ pc = "export"
    /\ files' = files \cup {"final_analysis_data.csv", "analysis_summary.txt"}
    /\ Goto("done")
    /\ UNCHANGED <<inputs, gvars, cvars, tvars, svars, rvars>>

(***************************************************************************)
(* The rolling statistics called on their own.                             *)
(***************************************************************************)
RollingCorrDirect ==
    /\ pc = "rb_return"
    /\ rb_corr' = rolling_corr(inflation, gold_returns, window)
    /\ Goto("rc_return")
    /\ UNCHANGED <<inputs, gvars, cvars, tvars, svars, files,
                   inflation, gold_returns, window, rb_i, betas, rb_result>>

(***************************************************************************)
(* Inputs.                                                                 *)
(***************************************************************************)
SeqsUpTo(S, len) == UNION {[1..k -> S] : k \in 0..len}

GoldRows(tokens, prices) ==
    [j \in 1..Len(tokens) |-> [Date |-> tokens[j], Price |-> Float(prices[j])]]

CPIRows(tokens, values) ==
    [j \in 1..Len(tokens) |-> [Date |-> tokens[j], CPI_Combined |-> Float(values[j])]]

\* the j-th month counted from January 2023, written as 2023-01-01
MonthToken(j) == Token("Ymd", 2023 + ((j - 1) \div 12), ((j - 1) % 12) + 1, 1)

Months(len) == [j \in 1..len |-> MonthToken(j)]

Counting(len) == [j \in 1..len |-> j]

\* the two files as read_csv hands them over
Loaded(gold, cpi) ==
    /\ csv_gold = gold
    /\ csv_cpi = cpi
    /\ df_gold = gold
    /\ df_cpi = cpi

\* inputs that vary the way the dates are written, one file at a time
GoldForms == {"bY", "by", "dmY", "Ymd", "text"}
CPIForms == {"bY", "dmY", "Ymd", "text"}

FormTokens(form) ==
    IF form \in {"bY", "by"} THEN {Token(form, 2023, mo, 1) : mo \in 1..2}
    ELSE {Token(form, 2023, mo, d) : mo \in 1..2, d \in 1..2}

DateColumns(forms) ==
    UNION {SeqsUpTo(FormTokens(f) \cup {BadToken}, MaxDateRows) : f \in forms}

DateInputs ==
    \/ \E col \in DateColumns(GoldForms) :
          Loaded(GoldRows(col, Counting(Len(col))), CPIRows(Months(2), Counting(2)))
    \/ \E col \in DateColumns(CPIForms) :
          Loaded(GoldRows(Months(2), Counting(2)), CPIRows(col, Counting(Len(col))))

\* inputs that vary the month keys: gold rows of any months in any order,
\* CPI rows of distinct months in calendar order
KeyTokens == {MonthToken(j) : j \in 1..MaxMonth}

Ascending(S) ==
    CHOOSE f \in [1..Cardinality(S) -> S] : \A a, b \in 1..Cardinality(S) : a < b => f[a] < f[b]

KeyInputs ==
    \E g \in SeqsUpTo(KeyTokens, MaxMergeRows), S \in SUBSET (1..MaxMonth) :
        Loaded(GoldRows(g, Counting(Len(g))),
               CPIRows([j \in 1..Cardinality(S) |-> MonthToken(Ascending(S)[j])],
                       Counting(Cardinality(S))))

\* inputs that vary the values over consecutive months
CellValues == 0..2

ValueInputs ==
    \E len \in 0..MaxRows :
        \E p \in [1..len -> CellValues], c \in [1..len -> CellValues] :
            Loaded(GoldRows(Months(len), p), CPIRows(Months(len), c))

\* regular monthly inputs long enough for the 12-month windows
Flat(len) == [j \in 1..len |-> 1]
Zigzag(len) == [j \in 1..len |-> 1 + (j % 2)]
Ramp(len) == [j \in 1..len |-> IF j % 3 = 0 THEN 2 ELSE 1]

LongInputs ==
    \E len \in WindowBeta12..LongRows :
        \E p \in {Flat(len), Zigzag(len), Ramp(len)},
           c \in {Flat(len), Zigzag(len), Ramp(len)} :
            Loaded(GoldRows(Months(len), p), CPIRows(Months(len), c))

Inputs == DateInputs \/ KeyInputs \/ ValueInputs \/ LongInputs

(***************************************************************************)
(* The run of the script.                                                  *)
(***************************************************************************)
NoCall ==
    /\ inflation = <<>>
    /\ gold_returns = <<>>
    /\ window = 1
    /\ rb_i = 0
    /\ betas = <<>>
    /\ rb_result = <<>>
    /\ rb_corr = <<>>

NotRun ==
    /\ fmt_i = 1
    /\ df = <<>>
    /\ merged = <<>>
    /\ gap_msg = "none"
    /\ corr_coeff = NaN
    /\ model = NoModel
    /\ stats = NoStats
    /\ files = {}
    /\ error = "none"
    /\ abort_line = 0

Init ==
    /\ Inputs
    /\ NotRun
    /\ NoCall
    /\ pc = "gold_dates"

Next ==
    \/ TryGoldFormat
    \/ InferGoldDates
    \/ NormalizeGold
    \/ ParseCPIDates
    \/ Merge
    \/ Sort
    \/ GapCheck
    \/ Returns
    \/ Correlation
    \/ StaticOLS
    \/ RollingCorr
    \/ CallRollingBeta
    \/ RollingBetaPass
    \/ RollingBetaReturn
    \/ AssignRollingBeta
    \/ Visualize
    \/ Export

Spec == Init /\ [][Next]_vars

(***************************************************************************)
(* rolling_beta and the rolling correlation on series of their own.        *)
(***************************************************************************)
InflationValues == {Float(0), Float(1), PosInf}
ReturnValues == {Float(0), Float(1)}

InitRolling ==
    /\ csv_gold = <<>>
    /\ csv_cpi = <<>>
    /\ df_gold = <<>>
    /\ df_cpi = <<>>
    /\ NotRun
    /\ \E len \in 0..MaxN :
          /\ inflation \in [1..len -> InflationValues]
          /\ gold_returns \in [1..len -> ReturnValues]
    /\ window \in 1..MaxW
    /\ rb_i = 0
    /\ betas = <<>>
    /\ rb_result = <<>>
    /\ rb_corr = <<>>
    /\ pc = "rb_loop"

NextRolling ==
    \/ RollingBetaPass
    \/ RollingBetaReturn
    \/ RollingCorrDirect

SpecRolling == InitRolling /\ [][NextRolling]_vars

TypeOK == pc \in {"gold_dates", "gold_month", "cpi_dates", "merge", "sort",
                  "gap_check", "returns", "corr", "ols", "rolling_corr",
                  "rb_call", "rb_loop", "rb_return", "rc_return", "visualize",
                  "export", "done", "aborted"}

(***************************************************************************)
(* Properties of rolling_beta and the rolling correlation (SpecRolling).   *)
(***************************************************************************)
Returned == pc \in {"rb_return", "rc_return"}

\* the window that starts at row s (0-based) of the arguments
InflationWindow(s) == SubSeq(inflation, s + 1, s + window)
ReturnsWindow(s) == SubSeq(gold_returns, s + 1, s + window)

\* a window whose regression has no slope: a regressor that is not finite,
\* or one whose values are all equal
Degenerate(xs) == ~AllFinite(xs) \/ Var(xs).n = 0

\* C1: a window whose regression cannot be solved, or whose inflation values
\* are all equal, has NaN at its position in the result of rolling_beta (no
\* exception, no number such as 0), and every window is evaluated.
C1_DegenerateWindowIsNaN ==
    Returned =>
        /\ Len(betas) = (IF Len(inflation) >= window
                         THEN Len(inflation) - window + 1 ELSE 0)
        /\ \A s \in 0..(Len(inflation) - window) :
              Degenerate(InflationWindow(s)) => IsNaN(rb_result[s + window])

\* C3: for every length n >= 0 and every window (n < window included), the
\* rolling correlation and the rolling beta each have exactly n entries,
\* with NaN in the first window - 1 positions.
C3_OutputLengthIsInputLength ==
    pc = "rc_return" =>
        /\ Len(rb_result) = Len(inflation)
        /\ Len(rb_corr) = Len(inflation)
        /\ \A j \in 1..Len(inflation) :
              j <= window - 1 => IsNaN(rb_result[j]) /\ IsNaN(rb_corr[j])

\* C10: for n >= window, position j of the result (0-based, window-1 <= j
\* <= n-1) holds the slope fitted on rows j-window+1 .. j, positions
\* 0 .. window-2 hold NaN, and the loop fits the windows once each, in
\* order: after i passes betas holds the fits of the windows 0 .. i-1.
C10_BetaAlignedWithWindowEnd ==
    Len(inflation) >= window =>
        /\ pc = "rb_loop" =>
              /\ Len(betas) = rb_i
              /\ rb_i <= Len(inflation) - window + 1
              /\ \A s \in 0..(rb_i - 1) :
                    betas[s + 1] \in WindowBeta(InflationWindow(s), ReturnsWindow(s))
        /\ Returned =>
              /\ Len(rb_result) = Len(inflation)
              /\ \A j \in 0..(Len(inflation) - 1) :
                    IF j < window - 1 THEN IsNaN(rb_result[j + 1])
                    ELSE rb_result[j + 1] \in
                            WindowBeta(SubSeq(inflation, j - window + 2, j + 1),
                                       SubSeq(gold_returns, j - window + 2, j + 1))

\* rolling_beta has returned two different finite slopes for two windows
C10_Witness ==
    /\ pc = "rb_return"
    /\ window >= 2
    /\ Len(inflation) > window
    /\ IsFinite(rb_result[window])
    /\ IsFinite(rb_result[window + 1])
    /\ rb_result[window] # rb_result[window + 1]

(***************************************************************************)
(* Properties of the run of the script (Spec).                             *)
(***************************************************************************)
Keys(table) == {table[j].Date : j \in 1..Len(table)}

AbortedAt(line) == pc = "aborted" /\ abort_line = line

\* the run is past sort_values
Sorted ==
    \/ pc \in {"gap_check", "returns", "corr", "ols", "rolling_corr", "rb_call",
               "rb_loop", "rb_return", "visualize", "export", "done"}
    \/ pc = "aborted" /\ abort_line >= 100

\* C2: after the merge and the sort the month keys of the merged records
\* are strictly increasing, whatever the order of the input rows and also
\* when several rows of a file fall into the same month.
C2_MergedKeysStrictlyIncreasing ==
    Sorted =>
        \A j \in 1..(Len(merged) - 1) :
            DayNumber(merged[j].Date) < DayNumber(merged[j + 1].Date)

\* C4: a table with fewer rows than the window of a rolling statistic only
\* leaves that statistic undefined: the rolling statistics never end the
\* run, which goes on to the charts and the exports.
C4_ShortTableDoesNotAbort ==
    Len(df) < WindowBeta12 => ~(pc = "aborted" /\ abort_line >= 119)

\* what the rate of a record is to be
ExpectedRate(cur, prev, rate) ==
    IF prev.n = 0 THEN ~IsFinite(rate)
    ELSE rate = RMul(RDiv(RSub(cur, prev), prev), Float(100))

\* C5: the return calculation removes the first merged record and nothing
\* else: n >= 1 merged records leave records 2..n in their order, each with
\* rate = (current - previous) / previous * 100, and a previous value of
\* zero makes that one rate undefined without removing any record.
C5_ReturnsDropOnlyFirstRecord ==
    (pc = "corr" /\ Len(merged) >= 1) =>
        /\ Len(df) = Len(merged) - 1
        /\ \A j \in 1..Len(df) :
              j + 1 <= Len(merged) =>
                /\ df[j].Date = merged[j + 1].Date
                /\ df[j].Price = merged[j + 1].Price
                /\ df[j].CPI_Combined = merged[j + 1].CPI_Combined
                /\ ExpectedRate(merged[j + 1].CPI_Combined, merged[j].CPI_Combined,
                                df[j].Inflation_Rate)
                /\ ExpectedRate(merged[j + 1].Price, merged[j].Price,
                                df[j].Gold_Returns)

\* some two consecutive merged records are more than 50 days apart
GapOver50Days ==
    \E j \in 1..(Len(merged) - 1) :
        DayNumber(merged[j + 1].Date) - DayNumber(merged[j].Date) > 50

\* C6: the gap warning is printed exactly when two consecutive month keys
\* of the sorted merged table are more than 50 days apart, and with or
\* without it the run goes on to the returns with the table as it was.
C6_GapWarningIffOver50Days ==
    /\ [](gap_msg # "none" => (gap_msg = "WARNING" <=> GapOver50Days))
    /\ [](pc = "returns" => gap_msg \in {"WARNING", "OK"} /\ df = merged)
    /\ [][pc = "gap_check" => pc' = "returns" /\ df' = df]_vars

\* the warning has been printed for a table with a two-month step, and a
\* one-month step of the same table has not hidden it
C6_Witness ==
    /\ pc = "returns"
    /\ gap_msg = "WARNING"
    /\ \E j \in 1..(Len(df) - 1) :
          DayNumber(df[j + 1].Date) - DayNumber(df[j].Date) \in 51..69

\* the static regression has run (or raised)
OLSRan ==
    \/ pc \in {"rolling_corr", "rb_call", "rb_loop", "rb_return", "visualize",
               "export", "done"}
    \/ pc = "aborted" /\ abort_line >= 100

\* C7: the static regression needs at least 3 pairs; with fewer it fails
\* (InsufficientDataError; the formula accepts an error of any name raised
\* by the regression) and yields no intercept, slope, p-value or R-squared.
C7_StaticOLSNeedsThreePairs ==
    (OLSRan /\ Len(df) < 3) =>
        /\ pc = "aborted"
        /\ abort_line \in 98..109
        /\ stats = NoStats

\* the merged table as pd.merge left it is still in df
MergedOnly == pc \in {"sort", "gap_check", "returns"}

JoinPairs ==
    {q \in (1..Len(df_gold)) \X (1..Len(df_cpi)) :
        df_gold[q[1]].Date = df_cpi[q[2]].Date}

\* C8: the merge is an inner join on the month key: the merged keys are
\* the keys both files have, and every merged record carries the price of
\* one gold row and the index of one CPI row of its month, one record for
\* each such pair.
C8_MergeIsInnerJoin ==
    MergedOnly =>
        /\ Keys(df) = Keys(df_gold) \cap Keys(df_cpi)
        /\ Len(df) = Cardinality(JoinPairs)
        /\ \A j \in 1..Len(df) :
              \E q \in JoinPairs :
                 /\ df[j].Date = df_gold[q[1]].Date
                 /\ df[j].Price = df_gold[q[1]].Price
                 /\ df[j].CPI_Combined = df_cpi[q[2]].CPI_Combined

\* a merge that kept some months and dropped a month of either file
C8_Witness ==
    /\ pc = "sort"
    /\ Len(df) >= 2
    /\ Keys(df_gold) \ Keys(df_cpi) # {}
    /\ Keys(df_cpi) \ Keys(df_gold) # {}

\* the candidate formats that parse every token of a raw column
Fitting(raw) == {f \in 1..Len(Formats) : ColumnParses(Formats[f], raw)}

First(S) == CHOOSE f \in S : \A h \in S : f <= h

\* the month keys the normalizer is to produce for a raw column
Normalized(raw) ==
    IF Fitting(raw) # {}
    THEN TruncateColumn(ParseColumn(Formats[First(Fitting(raw))], raw))
    ELSE TruncateColumn(InferColumn(raw))

GoldParsed == pc \notin {"gold_dates", "gold_month"} /\ ~AbortedAt(30)

CPIParsed ==
    /\ pc \notin {"gold_dates", "gold_month", "cpi_dates"}
    /\ ~AbortedAt(30)
    /\ ~AbortedAt(46)

\* C9: each of the two date columns is read with the first of "%b %Y",
\* "%b %y", "%d/%m/%Y", "%Y-%m-%d" that parses all of its tokens, with
\* inference only when none of the four does, and the run ends with a
\* parse error only when inference fails too.
C9_FirstFittingFormatWins ==
    /\ GoldParsed => df_gold = Normalized(csv_gold)
    /\ AbortedAt(30) => Fitting(csv_gold) = {} /\ ~ColumnInfers(csv_gold)
    /\ CPIParsed => df_cpi = Normalized(csv_cpi)
    /\ AbortedAt(46) => Fitting(csv_cpi) = {} /\ ~ColumnInfers(csv_cpi)

====
